---- MODULE Spec2Model ----
(***************************************************************************)
(* Model of src/bot.py: the on_message event handler of a Discord relay   *)
(* bot, its per-user rate limiting state (user_cooldowns,                 *)
(* users_awaiting_response), the inference helper get_ai_response and the *)
(* start-up block.                                                        *)
(*                                                                         *)
(* The bot runs on one asyncio event loop: a handler runs without          *)
(* interruption from one await to the next, so every action below is the   *)
(* code between two suspension points of on_message.                       *)
(*                                                                         *)
(* Time is counted in quarter seconds (ticks): every value of the model    *)
(* is then an exact binary fraction of a second, as the floats of the      *)
(* program are, and the rounding of the "{remaining_time:.1f}" format is   *)
(* decided exactly.                                                        *)
(***************************************************************************)
EXTENDS Integers, Sequences, FiniteSets, TLC

VARIABLES
    DISCORD_TOKEN,            \* os.getenv("DISCORD_TOKEN")
    LM_STUDIO_ENDPOINT,       \* os.getenv("LM_STUDIO_ENDPOINT")
    proc,                     \* the process: "main", "running", "exited"
    exit_code,                \* exit status of the process once it has exited
    clock,                    \* datetime.now(), in ticks
    user_cooldowns,           \* dict: user id -> timestamp
    users_awaiting_response,  \* set of user ids
    handlers,                 \* the on_message executions (coroutines)
    last_success              \* history: user id -> time its last request
                              \* completed with a generated text delivered

vars == <<DISCORD_TOKEN, LM_STUDIO_ENDPOINT, proc, exit_code, clock,
          user_cooldowns, users_awaiting_response, handlers, last_success>>

-----------------------------------------------------------------------------
(* Bounds and constants *)

\* Ticks in a second.
TicksPerSecond == 4

\* COOLDOWN_SECONDS = 15
COOLDOWN_SECONDS == 15

\* timedelta(seconds=COOLDOWN_SECONDS), in ticks
CooldownWindow == COOLDOWN_SECONDS * TicksPerSecond

\* The clock stops advancing at this tick.
MaxTime == 82

\* The amounts the clock advances by between two steps: 10.25 s and the
\* cooldown window.
ClockSteps == {41, CooldownWindow}

None == "None"

BotUser == "bot"
Users == {"u1", "u2"}
Authors == Users \cup {BotUser}

Handlers == {"h1", "h2"}

\* The mention token f'<@{bot.user.id}>', one symbol of a message content.
MENTION == "<@bot>"

WHITESPACE == {" "}

\* '!ask'
ASK == <<"!", "a", "s", "k">>

\* HTTP status of a non-200 answer of the endpoint.
ErrorStatuses == {500}

-----------------------------------------------------------------------------
(* Strings: a str is a sequence of characters *)

\* s[i:] of Python, i counted from 0
SliceFrom(s, i) ==
    IF i >= Len(s) THEN <<>> ELSE SubSeq(s, i + 1, Len(s))

\* s.startswith(p)
StartsWith(s, p) ==
    /\ Len(s) >= Len(p)
    /\ SubSeq(s, 1, Len(p)) = p

RECURSIVE LStrip(_)
LStrip(s) ==
    IF s # <<>> /\ Head(s) \in WHITESPACE THEN LStrip(Tail(s)) ELSE s

RECURSIVE RStrip(_)
RStrip(s) ==
    IF s # <<>> /\ s[Len(s)] \in WHITESPACE
    THEN RStrip(SubSeq(s, 1, Len(s) - 1))
    ELSE s

\* s.strip()
Strip(s) == RStrip(LStrip(s))

\* s.replace(f'<@{bot.user.id}>', '')
RemoveMention(s) == SelectSeq(s, LAMBDA c : c # MENTION)

-----------------------------------------------------------------------------
(* Inbound events *)

\* message.content and whether the gateway lists the bot among the
\* message's mentions (bot.user.mentioned_in(message)).
Event(c, m) == [content |-> c, mentions_bot |-> m]

EvAskHi     == Event(ASK \o <<" ", "h", "i">>, FALSE)
EvAsk       == Event(ASK, FALSE)
EvAskSpace  == Event(ASK \o <<" ", " ">>, FALSE)
EvMention   == Event(<<MENTION>>, TRUE)
EvMentionHi == Event(<<MENTION, " ", "h", "i">>, TRUE)
EvPlain     == Event(<<"h", "i">>, FALSE)
\* '!askx': the command test passes, the five characters of '!ask ' are cut
EvAskX      == Event(ASK \o <<"x">>, FALSE)
\* a reply to a message of the bot: a mention without the token
EvReplyHi   == Event(<<"h", "i">>, TRUE)

Events == {EvAskHi, EvAsk, EvAskSpace, EvMention, EvMentionHi, EvPlain,
           EvAskX, EvReplyHi}

\* The messages of the bot come back to it as events: a generated text can
\* be any content, a trigger included.
BotEvents == {EvAskHi, EvPlain}

\* The events an author can send.
Inbound(a) == IF a = BotUser THEN BotEvents ELSE Events

\* is_command = message.content.startswith('!ask')
is_command(ev) == StartsWith(ev.content, ASK)

\* is_mention = bot.user.mentioned_in(message)
is_mention(ev) == ev.mentions_bot

\* prompt with the two .strip() calls left out
prompt_NoStrip(ev) ==
    IF is_command(ev)
    THEN SliceFrom(ev.content, Len(ASK \o <<" ">>))
    ELSE RemoveMention(ev.content)

\* prompt, as lines 114-120 compute it
prompt(ev) ==
    IF is_command(ev)
    THEN Strip(SliceFrom(ev.content, Len(ASK \o <<" ">>)))
    ELSE Strip(RemoveMention(ev.content))

-----------------------------------------------------------------------------
(* Messages the bot sends *)

Msg(k, n) == [kind |-> k, n |-> n]

\* f"{x:.1f}" of a number of seconds x given in ticks: the number of tenths
\* of a second printed. The value is an exact binary fraction, so a tie is
\* rounded to the even digit.
Format1f(ticks) ==
    LET scaled == ticks * 10
        q == scaled \div TicksPerSecond
        r == scaled % TicksPerSecond
    IN  IF 2 * r < TicksPerSecond THEN q
        ELSE IF 2 * r > TicksPerSecond THEN q + 1
        ELSE IF q % 2 = 0 THEN q ELSE q + 1

WaitNotice == Msg("Please wait for your previous request to complete.", 0)

CooldownNotice(remaining_time) ==
    Msg("You're on a cooldown. Please wait {:.1f} more seconds.",
        Format1f(remaining_time))

EmptyPromptNotice ==
    Msg("Please provide a prompt after the command or mention!", 0)

\* What get_ai_response can end with; status is response.status.
Result(k, s) == [kind |-> k, status |-> s]

NoResult == Result(None, 0)

Failures ==
    {Result("ConnectionRefused", 0), Result("MalformedResponse", 200),
     Result("UnknownError", 0)}
      \cup {Result("UpstreamError", s) : s \in ErrorStatuses}

\* The string get_ai_response returns for each way it ends.
ResponseText(result) ==
    CASE result.kind = "Text" -> Msg("<generated text>", 0)
      [] result.kind = "EndpointNotConfigured" ->
            Msg("Error: The LM Studio API endpoint is not configured.", 0)
      [] result.kind = "ConnectionRefused" ->
            Msg("Sorry, I can't reach the AI at the moment. Please make sure the local server is running.", 0)
      [] result.kind = "UpstreamError" ->
            Msg("Sorry, the AI service returned an error (Status: {}).", result.status)
      [] result.kind = "MalformedResponse" ->
            Msg("Sorry, I received an unexpected response from the AI.", 0)
      [] result.kind = "UnknownError" ->
            Msg("An unexpected error occurred while trying to contact the AI.", 0)

\* The ways a call get_ai_response(prompt) can end.
get_ai_response(p) ==
    IF LM_STUDIO_ENDPOINT \in {None, ""}
    THEN {Result("EndpointNotConfigured", 0)}
    ELSE {Result("Text", 200)} \cup Failures

-----------------------------------------------------------------------------
(* Handler executions *)

\* A handler keeps what its remaining code reads: the author, the notice it
\* is about to send, the prompt, the result of the inference call. Once it
\* has ended, its decision and the exception it ended with (if any) stay on
\* record until the slot takes the next event.
Idle == [pc |-> "idle", author |-> None, decision |-> None,
         remaining_time |-> 0, prompt |-> <<>>, result |-> NoResult,
         fault |-> None]

\* The handler has returned, or raised f.
Returned(rec, f) ==
    [Idle EXCEPT !.pc = "done",
                 !.decision = rec.decision, !.fault = f]

Pipeline == {"typing", "inference", "reply"}

InPipeline(h) == handlers[h].pc \in Pipeline

Init ==
    /\ DISCORD_TOKEN \in {None, "token"}
    /\ LM_STUDIO_ENDPOINT \in {None, "", "http://localhost:1234"}
    /\ proc = "main"
    /\ exit_code = None
    /\ clock = 0
    /\ user_cooldowns = <<>>
    /\ users_awaiting_response = {}
    /\ handlers = [h \in Handlers |-> Idle]
    /\ last_success = <<>>

\* if __name__ == "__main__": ...
Main ==
    /\ proc = "main"
    /\ IF DISCORD_TOKEN = None \/ LM_STUDIO_ENDPOINT = None
       THEN proc' = "exited" /\ exit_code' = 0
       ELSE proc' = "running" /\ exit_code' = exit_code
    /\ UNCHANGED <<DISCORD_TOKEN, LM_STUDIO_ENDPOINT, clock, user_cooldowns,
                   users_awaiting_response, handlers, last_success>>

\* Time passes.
Tick ==
    /\ proc = "running"
    /\ \E d \in ClockSteps :
        /\ clock + d <= MaxTime
        /\ clock' = clock + d
    /\ UNCHANGED <<DISCORD_TOKEN, LM_STUDIO_ENDPOINT, proc, exit_code,
                   user_cooldowns, users_awaiting_response, handlers,
                   last_success>>

\* the membership test left out
AwaitingResponse_NoCheck(user_id) == FALSE

\* the test made on the whole set: any user in flight
AwaitingResponse_Global(user_id) == users_awaiting_response # {}

\* user_id in users_awaiting_response
AwaitingResponse(user_id) == user_id \in users_awaiting_response

\* the window's end counted as inside the window
OnCooldown_Inclusive(user_id) ==
    /\ user_id \in DOMAIN user_cooldowns
    /\ clock - user_cooldowns[user_id] <= CooldownWindow

\* The cooldown test of lines 106-108.
OnCooldown(user_id) ==
    /\ user_id \in DOMAIN user_cooldowns
    /\ clock - user_cooldowns[user_id] < CooldownWindow

\* the self test left out
IsSelf_Never(a) == FALSE

\* message.author == bot.user
IsSelf(a) == a = BotUser

\* not (not is_command and not is_mention)
Triggers(ev) == is_command(ev) \/ is_mention(ev)

\* the elapsed time in place of the remaining time
RemainingTime_Elapsed(user_id) == clock - user_cooldowns[user_id]

\* remaining_time = COOLDOWN_SECONDS - time_since_last_request.total_seconds()
RemainingTime(user_id) == CooldownWindow - (clock - user_cooldowns[user_id])

\* the test inverted
EmptyPrompt_Inverted(p) == p # <<>>

\* not prompt
EmptyPrompt(p) == p = <<>>

\* the empty-prompt test made before the in-flight and cooldown tests
Admission_EmptyFirst(a, ev) ==
    LET h0 == [Idle EXCEPT !.author = a]
    IN  IF IsSelf(a)
        THEN Returned([h0 EXCEPT !.decision = "Ignored"], None)
        ELSE IF ~Triggers(ev)
        THEN Returned([h0 EXCEPT !.decision = "NotTrigger"], None)
        ELSE IF EmptyPrompt(prompt(ev))
        THEN [h0 EXCEPT !.pc = "notice", !.decision = "EmptyPrompt"]
        ELSE IF AwaitingResponse(a)
        THEN [h0 EXCEPT !.pc = "notice", !.decision = "AlreadyInFlight"]
        ELSE IF OnCooldown(a)
        THEN [h0 EXCEPT !.pc = "notice", !.decision = "OnCooldown",
                        !.remaining_time = RemainingTime(a)]
        ELSE [h0 EXCEPT !.pc = "typing", !.decision = "Admitted",
                        !.prompt = prompt(ev)]

\* Lines 86-127 for an event ev of author a: the handler's state at its
\* first await, or at its return when it sends nothing.
Admission(a, ev) ==
    LET h0 == [Idle EXCEPT !.author = a]
    IN  IF IsSelf(a)
        THEN Returned([h0 EXCEPT !.decision = "Ignored"], None)
        ELSE IF ~Triggers(ev)
        THEN Returned([h0 EXCEPT !.decision = "NotTrigger"], None)
        ELSE IF AwaitingResponse(a)
        THEN [h0 EXCEPT !.pc = "notice", !.decision = "AlreadyInFlight"]
        ELSE IF OnCooldown(a)
        THEN [h0 EXCEPT !.pc = "notice", !.decision = "OnCooldown",
                        !.remaining_time = RemainingTime(a)]
        ELSE IF EmptyPrompt(prompt(ev))
        THEN [h0 EXCEPT !.pc = "notice", !.decision = "EmptyPrompt"]
        ELSE [h0 EXCEPT !.pc = "typing", !.decision = "Admitted",
                        !.prompt = prompt(ev)]

\* the add left out
Admit_Missing(user_id) == users_awaiting_response

\* users_awaiting_response.add(user_id)
Admit(user_id) == users_awaiting_response \cup {user_id}

\* the add made before the checks, whatever the outcome
Start_AddsAlways(h, a, ev) ==
    /\ proc = "running"
    /\ handlers[h].pc \in {"idle", "done"}
    /\ handlers' = [handlers EXCEPT ![h] = Admission(a, ev)]
    /\ users_awaiting_response' = Admit(a)
    /\ UNCHANGED <<DISCORD_TOKEN, LM_STUDIO_ENDPOINT, proc, exit_code, clock,
                   user_cooldowns, last_success>>

\* on_message is called with a new event: lines 86-127.
Start(h, a, ev) ==
    /\ proc = "running"
    /\ handlers[h].pc \in {"idle", "done"}
    /\ LET admission == Admission(a, ev)
       IN  /\ handlers' = [handlers EXCEPT ![h] = admission]
           /\ users_awaiting_response' =
                 IF admission.decision = "Admitted"
                 THEN Admit(a)
                 ELSE users_awaiting_response
    /\ UNCHANGED <<DISCORD_TOKEN, LM_STUDIO_ENDPOINT, proc, exit_code, clock,
                   user_cooldowns, last_success>>

\* The message of a rejection notice.
Notice(h) ==
    CASE handlers[h].decision = "AlreadyInFlight" -> WaitNotice
      [] handlers[h].decision = "OnCooldown" ->
            CooldownNotice(handlers[h].remaining_time)
      [] handlers[h].decision = "EmptyPrompt" -> EmptyPromptNotice

\* await message.channel.send(<notice>, delete_after=10) returns or raises;
\* the handler returns (lines 102-103, 110-111, 123-124).
SendNotice(h) ==
    /\ handlers[h].pc = "notice"
    /\ \E ok \in BOOLEAN :
        handlers' = [handlers EXCEPT ![h] =
            Returned(@, IF ok THEN None ELSE "HTTPException")]
    /\ UNCHANGED <<DISCORD_TOKEN, LM_STUDIO_ENDPOINT, proc, exit_code, clock,
                   user_cooldowns, users_awaiting_response, last_success>>

\* the remove left out
Remove_Skipped(user_id) ==
    [set |-> users_awaiting_response, raised |-> FALSE]

\* users_awaiting_response.remove(user_id) of the finally block: the set
\* afterwards, and whether remove raised KeyError.
Remove(user_id) ==
    [set |-> users_awaiting_response \ {user_id},
     raised |-> user_id \notin users_awaiting_response]

\* the remove after the try block, not in a finally clause: an exception
\* skips it
Finally_OnlyOnSuccess(h, f) ==
    LET r == Remove(handlers[h].author)
    IN  /\ users_awaiting_response' =
              IF f = None THEN r.set ELSE users_awaiting_response
        /\ handlers' = [handlers EXCEPT ![h] =
              Returned(@, IF f = None /\ r.raised THEN "KeyError" ELSE f)]

\* The handler leaves the try block with fault f (None: normally), runs the
\* finally block and ends.
Finally(h, f) ==
    LET r == Remove(handlers[h].author)
    IN  /\ users_awaiting_response' = r.set
        /\ handlers' = [handlers EXCEPT ![h] =
              Returned(@, IF r.raised THEN "KeyError" ELSE f)]

\* async with message.channel.typing(): entering it returns or raises.
EnterTyping(h) ==
    /\ handlers[h].pc = "typing"
    /\ \/ /\ handlers' = [handlers EXCEPT ![h].pc = "inference"]
          /\ UNCHANGED users_awaiting_response
       \/ Finally(h, "HTTPException")
    /\ UNCHANGED <<DISCORD_TOKEN, LM_STUDIO_ENDPOINT, proc, exit_code, clock,
                   user_cooldowns, last_success>>

\* the call made again after a failure
Inference_RetryOnFailure(h) ==
    /\ handlers[h].pc = "inference"
    /\ \E result \in get_ai_response(handlers[h].prompt) :
        handlers' = [handlers EXCEPT ![h] =
            [@ EXCEPT !.pc = IF result.kind = "Text" THEN "reply"
                             ELSE "inference",
                      !.result = result]]
    /\ UNCHANGED <<DISCORD_TOKEN, LM_STUDIO_ENDPOINT, proc, exit_code, clock,
                   user_cooldowns, users_awaiting_response, last_success>>

\* ai_response = await get_ai_response(prompt) returns (line 131).
Inference(h) ==
    /\ handlers[h].pc = "inference"
    /\ \E result \in get_ai_response(handlers[h].prompt) :
        handlers' = [handlers EXCEPT ![h] =
            [@ EXCEPT !.pc = "reply", !.result = result]]
    /\ UNCHANGED <<DISCORD_TOKEN, LM_STUDIO_ENDPOINT, proc, exit_code, clock,
                   user_cooldowns, users_awaiting_response, last_success>>

\* the write left out
RecordCooldown_Skipped(user_id) == user_cooldowns

\* the registry rebound to the one new entry
RecordCooldown_Rebind(user_id) == [u \in {user_id} |-> clock]

\* user_cooldowns[user_id] = datetime.now() (line 135)
RecordCooldown(user_id) ==
    [u \in DOMAIN user_cooldowns \cup {user_id} |->
        IF u = user_id THEN clock ELSE user_cooldowns[u]]

\* the cooldown written before the reply is sent
SendReply_WriteBeforeSend(h) ==
    /\ handlers[h].pc = "reply"
    /\ LET a == handlers[h].author
           text == handlers[h].result.kind = "Text"
       IN  /\ user_cooldowns' = RecordCooldown(a)
           /\ \/ /\ Finally(h, None)
                 /\ last_success' =
                       IF text
                       THEN [u \in DOMAIN last_success \cup {a} |->
                               IF u = a THEN clock ELSE last_success[u]]
                       ELSE last_success
              \/ /\ Finally(h, "HTTPException")
                 /\ UNCHANGED last_success
    /\ UNCHANGED <<DISCORD_TOKEN, LM_STUDIO_ENDPOINT, proc, exit_code, clock>>

\* await message.channel.send(ai_response) returns or raises; then line 135
\* and the finally block (lines 133-138).
SendReply(h) ==
    /\ handlers[h].pc = "reply"
    /\ LET a == handlers[h].author
           text == handlers[h].result.kind = "Text"
       IN  \/ /\ Finally(h, None)
              /\ user_cooldowns' = RecordCooldown(a)
              /\ last_success' =
                    IF text
                    THEN [u \in DOMAIN last_success \cup {a} |->
                            IF u = a THEN clock ELSE last_success[u]]
                    ELSE last_success
           \/ /\ Finally(h, "HTTPException")
              /\ UNCHANGED <<user_cooldowns, last_success>>
    /\ UNCHANGED <<DISCORD_TOKEN, LM_STUDIO_ENDPOINT, proc, exit_code, clock>>

Next ==
    \/ Main
    \/ Tick
    \/ \E h \in Handlers, a \in Authors :
          \E ev \in Inbound(a) : Start(h, a, ev)
    \/ \E h \in Handlers : SendNotice(h)
    \/ \E h \in Handlers : EnterTyping(h)
    \/ \E h \in Handlers : Inference(h)
    \/ \E h \in Handlers : SendReply(h)

Spec == Init /\ [][Next]_vars

\* The event loop resumes every handler whose awaited call has returned or
\* raised, and the awaited calls of the pipeline do return or raise.
Fairness ==
    \A h \in Handlers :
        /\ WF_vars(EnterTyping(h))
        /\ WF_vars(Inference(h))
        /\ WF_vars(SendReply(h))

FairSpec == Spec /\ Fairness

-----------------------------------------------------------------------------
(* Properties *)

\* This step is a call of on_message in slot h.
Started(h) ==
    /\ handlers[h].pc \in {"idle", "done"}
    /\ handlers'[h] # handlers[h]

\* This step is the call of on_message in slot h with the event ev of a.
Handles(h, a, ev) ==
    /\ Started(h)
    /\ Start(h, a, ev)

\* The content of an event with its trigger marker (the command prefix
\* '!ask', or else the mention token) and the surrounding whitespace taken
\* away.
StrippedOfMarker(ev) ==
    IF StartsWith(ev.content, ASK)
    THEN Strip(SliceFrom(ev.content, Len(ASK)))
    ELSE Strip(SelectSeq(ev.content, LAMBDA c : c # MENTION))

\* The events that trigger the bot, those among them that leave a prompt,
\* and those that are empty once the marker is taken away.
TriggerEvents == {ev \in Events : Triggers(ev)}
PromptEvents == {ev \in TriggerEvents : prompt(ev) # <<>>}
EmptyEvents == {ev \in TriggerEvents : StrippedOfMarker(ev) = <<>>}

\* The handlers of user u that are inside the request pipeline.
PipelinesOf(u) == {h \in Handlers : InPipeline(h) /\ handlers[h].author = u}

\* The value a cooldown notice reports is the value x (in ticks).
ReportsExactly(msg, x) == msg.n * TicksPerSecond = 10 * x

\* The value a cooldown notice reports is x (in ticks) rounded to a tenth of
\* a second.
ReportsRounded(msg, x) ==
    LET d == msg.n * TicksPerSecond - 10 * x
    IN  /\ 2 * d <= TicksPerSecond
        /\ 2 * d >= -TicksPerSecond

\* C1: at any time, at most one handler execution of a user is inside the
\* request pipeline.
C1_OnePipelinePerUser ==
    \A u \in Users : Cardinality(PipelinesOf(u)) <= 1

\* Two users are in the pipeline at once, each with one handler.
C1_Witness ==
    \E h1, h2 \in Handlers :
        /\ InPipeline(h1)
        /\ InPipeline(h2)
        /\ handlers[h1].author # handlers[h2].author

\* C2: of two triggering events of one user with non-empty prompts, the
\* second evaluated while the first is in the pipeline, the first is the
\* admitted one and the second gets the already-in-flight notice, whichever
\* handler came first.
C2_SecondIsTurnedAway ==
    [][\A h \in Handlers : Started(h) =>
        \A h1 \in Handlers, a \in Users, ev \in PromptEvents :
          ( /\ h1 # h
            /\ InPipeline(h1)
            /\ handlers[h1].author = a
            /\ ~OnCooldown(a)
            /\ Handles(h, a, ev) )
          => /\ handlers'[h].pc = "notice"
             /\ handlers'[h].decision = "AlreadyInFlight"
             /\ Notice(h)' = WaitNotice
             /\ handlers[h1].decision = "Admitted"
             /\ handlers'[h1] = handlers[h1]
             /\ users_awaiting_response' = users_awaiting_response]_vars

\* The first handler waits for the inference call, the second is about to
\* send the already-in-flight notice.
C2_Witness ==
    \E h1, h2 \in Handlers :
        /\ handlers[h1].pc \in {"inference", "reply"}
        /\ handlers[h2].pc = "notice"
        /\ handlers[h2].author = handlers[h1].author
        /\ handlers[h2].decision = "AlreadyInFlight"

\* C3: a request of a user is admitted only when the cooldown window has
\* passed since the user's last successful completion: from its admission
\* on, a handler in the pipeline sees at least the window between that
\* completion and now.
C3_AdmittedAfterWindow ==
    \A h \in Handlers :
        ( /\ InPipeline(h)
          /\ handlers[h].author \in DOMAIN last_success )
        => clock - last_success[handlers[h].author] >= CooldownWindow

\* A request admitted after an earlier success of the same user.
C3_Witness ==
    \E h \in Handlers :
        /\ handlers[h].pc = "typing"
        /\ handlers[h].decision = "Admitted"
        /\ handlers[h].author \in DOMAIN last_success

\* The case of C4: a triggering event of a user who is not in flight,
\* evaluated less than the cooldown window after that user's last successful
\* completion.
C4_Case(h, a, ev) ==
    /\ ~AwaitingResponse(a)
    /\ a \in DOMAIN last_success
    /\ clock - last_success[a] < CooldownWindow
    /\ Handles(h, a, ev)

\* C4 as claimed: the event is rejected as on-cooldown and the notice
\* reports exactly COOLDOWN_SECONDS - (t2 - t1).
C4_ReportsExactRemaining ==
    [][\A h \in Handlers : Started(h) =>
        \A a \in Users, ev \in TriggerEvents :
          C4_Case(h, a, ev)
          => /\ handlers'[h].decision = "OnCooldown"
             /\ ReportsExactly(Notice(h)',
                               CooldownWindow - (clock - last_success[a]))]_vars

\* C4 as amended: the event is rejected as on-cooldown, the remaining time
\* computed is COOLDOWN_SECONDS - (t2 - t1), and the notice reports it
\* rounded to one decimal place.
C4_ReportsRoundedRemaining ==
    [][\A h \in Handlers : Started(h) =>
        \A a \in Users, ev \in TriggerEvents :
          C4_Case(h, a, ev)
          => /\ handlers'[h].pc = "notice"
             /\ handlers'[h].decision = "OnCooldown"
             /\ handlers'[h].remaining_time =
                    CooldownWindow - (clock - last_success[a])
             /\ ReportsRounded(Notice(h)', handlers'[h].remaining_time)]_vars

\* A cooldown notice whose remaining time does not fit one decimal place.
C4_Witness ==
    \E h \in Handlers :
        /\ handlers[h].pc = "notice"
        /\ handlers[h].decision = "OnCooldown"
        /\ handlers[h].author \in DOMAIN last_success
        /\ ~ReportsExactly(Notice(h), handlers[h].remaining_time)

\* C5: a request whose inference call failed leaves the cooldown registry
\* as it was.
C5_FailureKeepsCooldown ==
    [][\A h \in Handlers :
          ( /\ handlers[h].pc = "reply"
            /\ handlers[h].result.kind # "Text"
            /\ handlers'[h].pc = "done" )
          => user_cooldowns' = user_cooldowns]_vars

\* C6: a user is in the in-flight set exactly while one of its handlers is
\* in the pipeline, and the remove of the finally block never raises
\* KeyError.
C6_InFlightIffPipeline ==
    /\ users_awaiting_response \subseteq Users
    /\ \A u \in Users : u \in users_awaiting_response <=> PipelinesOf(u) # {}
    /\ \A h \in Handlers : handlers[h].fault # "KeyError"

\* An admitted request has ended with an exception of the typing indicator
\* or of the reply send, and its user is out of the in-flight set.
C6_Witness ==
    \E h \in Handlers :
        /\ handlers[h].pc = "done"
        /\ handlers[h].decision = "Admitted"
        /\ handlers[h].fault = "HTTPException"
        /\ users_awaiting_response = {}

\* C7: a user in the in-flight set eventually leaves it, and an event is
\* rejected as already-in-flight only while a request of its author is in
\* the pipeline.
C7_EventuallyReleased ==
    /\ \A u \in Users :
          (u \in users_awaiting_response) ~> (u \notin users_awaiting_response)
    /\ [][\A h \in Handlers, a \in Users :
            ( /\ Started(h)
              /\ handlers'[h].decision = "AlreadyInFlight"
              /\ handlers'[h].author = a )
            => PipelinesOf(a) # {}]_vars

\* A request of a user has completed (its cooldown entry is written) and a
\* later request of the same user is in the pipeline.
C7_Witness ==
    \E h \in Handlers :
        /\ InPipeline(h)
        /\ handlers[h].author \in DOMAIN user_cooldowns

\* The case of C8: a triggering event of a user with no cooldown entry who
\* is not in flight.
C8_Case(h, a, ev) ==
    /\ a \notin DOMAIN user_cooldowns
    /\ a \notin users_awaiting_response
    /\ Handles(h, a, ev)

\* C8 as claimed: the event is admitted.
C8_FirstEventAdmitted ==
    [][\A h \in Handlers : Started(h) =>
        \A a \in Users, ev \in TriggerEvents :
          C8_Case(h, a, ev) => handlers'[h].decision = "Admitted"]_vars

\* C8 as amended: the event is admitted when its prompt is not empty, and
\* rejected with the empty-prompt notice when it is.
C8_FirstEventWithPromptAdmitted ==
    [][\A h \in Handlers : Started(h) =>
        \A a \in Users, ev \in TriggerEvents :
          C8_Case(h, a, ev)
          => IF ev \in PromptEvents
             THEN /\ handlers'[h].decision = "Admitted"
                  /\ handlers'[h].pc = "typing"
                  /\ a \in users_awaiting_response'
             ELSE /\ handlers'[h].decision = "EmptyPrompt"
                  /\ a \notin users_awaiting_response']_vars

\* A user without a cooldown entry has been admitted.
C8_Witness ==
    \E h \in Handlers :
        /\ handlers[h].pc = "typing"
        /\ handlers[h].decision = "Admitted"
        /\ handlers[h].author \notin DOMAIN user_cooldowns

\* The case of C9: a triggering event whose content is empty once the
\* trigger marker and the surrounding whitespace are taken away.
C9_Case(h, a, ev) ==
    /\ ev \in EmptyEvents
    /\ Handles(h, a, ev)

\* C9 as claimed: the event gets the empty-prompt notice.
C9_EmptyPromptNotice ==
    [][\A h \in Handlers : Started(h) =>
        \A a \in Users, ev \in EmptyEvents :
          C9_Case(h, a, ev)
          => /\ handlers'[h].decision = "EmptyPrompt"
             /\ users_awaiting_response' = users_awaiting_response]_vars

\* C9 as amended: the event is never admitted; it gets the empty-prompt
\* notice unless its author is in flight or on cooldown, which is reported
\* first; and no handler is in the pipeline with an empty prompt.
C9_EmptyPromptNeverAdmitted ==
    /\ [][\A h \in Handlers : Started(h) =>
          \A a \in Users, ev \in EmptyEvents :
            C9_Case(h, a, ev)
            => /\ handlers'[h].pc = "notice"
               /\ handlers'[h].decision =
                     IF AwaitingResponse(a) THEN "AlreadyInFlight"
                     ELSE IF OnCooldown(a) THEN "OnCooldown"
                     ELSE "EmptyPrompt"
               /\ users_awaiting_response' = users_awaiting_response]_vars
    /\ [](\A h \in Handlers : InPipeline(h) => handlers[h].prompt # <<>>)

\* The empty-prompt notice is about to be sent.
C9_Witness ==
    \E h \in Handlers :
        /\ handlers[h].pc = "notice"
        /\ handlers[h].decision = "EmptyPrompt"
        /\ handlers[h].author \notin users_awaiting_response

\* C10: an event of the bot itself ends the handler at once, whatever its
\* content: nothing is sent, no inference call is made, the in-flight set
\* and the cooldown registry stay as they are; the bot never has a handler
\* that sends or calls the inference endpoint.
C10_SelfIgnored ==
    /\ [][\A h \in Handlers : Started(h) =>
          \A ev \in BotEvents :
            Handles(h, BotUser, ev)
            => /\ handlers'[h].pc = "done"
               /\ handlers'[h].decision = "Ignored"
               /\ handlers'[h].fault = None
               /\ users_awaiting_response' = users_awaiting_response
               /\ user_cooldowns' = user_cooldowns]_vars
    /\ [](\A h \in Handlers : handlers[h].author # BotUser)
    /\ [](BotUser \notin users_awaiting_response
            /\ BotUser \notin DOMAIN user_cooldowns)

\* An event of the bot has been handled while a user's request is in the
\* pipeline.
C10_Witness ==
    \E h1, h2 \in Handlers :
        /\ handlers[h1].pc = "done"
        /\ handlers[h1].decision = "Ignored"
        /\ InPipeline(h2)

\* C11: the handler of an admitted request never ends with an exception:
\* every failure is turned into a reply.
C11_NoUnhandledFault ==
    \A h \in Handlers :
        (handlers[h].pc = "done" /\ handlers[h].decision = "Admitted")
        => handlers[h].fault = None

\* C12: with a required configuration value absent the bot is never run and
\* the process ends with a non-zero exit status.
C12_FatalExitNonZero ==
    (DISCORD_TOKEN = None \/ LM_STUDIO_ENDPOINT = None)
    => /\ proc # "running"
       /\ proc = "exited" => exit_code # 0

\* The rejection rules in the order the specification gives them.
Rules == <<"Ignored", "NotTrigger", "AlreadyInFlight", "OnCooldown",
           "EmptyPrompt">>

\* Rule r rejects the event ev of author a in the current state.
RuleMatches(r, a, ev) ==
    CASE r = "Ignored" -> a = BotUser
      [] r = "NotTrigger" -> ev \notin TriggerEvents
      [] r = "AlreadyInFlight" -> a \in users_awaiting_response
      [] r = "OnCooldown" ->
            /\ a \in DOMAIN user_cooldowns
            /\ clock - user_cooldowns[a] < CooldownWindow
      [] r = "EmptyPrompt" -> ev \notin PromptEvents

\* The outcome the first matching rule gives, "Admitted" when none matches.
FirstMatch(a, ev) ==
    LET m == {i \in 1..Len(Rules) : RuleMatches(Rules[i], a, ev)}
    IN  IF m = {} THEN "Admitted"
        ELSE Rules[CHOOSE i \in m : \A j \in m : i <= j]

\* The triggering events whose prompt is empty.
NoPromptEvents == TriggerEvents \ PromptEvents

\* C13: in every state, the outcome on_message computes for an event is the
\* one of the first rule that matches in the order self-authored,
\* not-a-trigger, already-in-flight, on-cooldown, empty-prompt; and a
\* triggering event with an empty prompt gets the already-in-flight notice
\* from a user in flight and the on-cooldown notice from a user on cooldown
\* and not in flight, never the empty-prompt notice.
C13_FirstMatchingRuleWins ==
    /\ [](\A a \in Authors : \A ev \in Inbound(a) :
            Admission(a, ev).decision = FirstMatch(a, ev))
    /\ [][\A h \in Handlers : Started(h) =>
          \A a \in Users :
            (AwaitingResponse(a) \/ OnCooldown(a)) =>
            \A ev \in NoPromptEvents :
              Handles(h, a, ev)
              => /\ handlers'[h].pc = "notice"
                 /\ handlers'[h].decision =
                       IF AwaitingResponse(a) THEN "AlreadyInFlight"
                       ELSE "OnCooldown"
                 /\ Notice(h)' # EmptyPromptNotice
                 /\ AwaitingResponse(a) => Notice(h)' = WaitNotice]_vars

\* One user has both an already-in-flight notice and an on-cooldown notice
\* pending.
C13_Witness ==
    \E h1, h2 \in Handlers :
        /\ handlers[h1].pc = "notice"
        /\ handlers[h1].decision = "AlreadyInFlight"
        /\ handlers[h2].pc = "notice"
        /\ handlers[h2].decision = "OnCooldown"
        /\ handlers[h2].author = handlers[h1].author

\* The outcomes that reject an event.
Rejections == {"Ignored", "NotTrigger", "AlreadyInFlight", "OnCooldown",
               "EmptyPrompt"}

\* This step is a step of the handler in slot h, from its call to its
\* return, that belongs to an execution ending in a rejection.
RejectionStep(h) ==
    /\ handlers'[h] # handlers[h]
    /\ handlers'[h].decision \in Rejections

\* C14: every step of a handler execution that ends in a rejection leaves
\* the in-flight set and the cooldown registry unchanged; the in-flight set
\* changes only by the admission of a request (its user is added) and by the
\* end of an admitted request (its user is removed).
C14_RejectionChangesNothing ==
    [][/\ \A h \in Handlers :
            RejectionStep(h)
            => /\ users_awaiting_response' = users_awaiting_response
               /\ user_cooldowns' = user_cooldowns
       /\ users_awaiting_response' # users_awaiting_response
            => \E h \in Handlers :
                 \/ /\ Started(h)
                    /\ handlers'[h].decision = "Admitted"
                    /\ users_awaiting_response' =
                          users_awaiting_response \cup {handlers'[h].author}
                 \/ /\ InPipeline(h)
                    /\ handlers[h].decision = "Admitted"
                    /\ handlers'[h].pc = "done"
                    /\ users_awaiting_response' =
                          users_awaiting_response \ {handlers[h].author}]_vars

\* A rejected event has been handled to its end while a user is in flight
\* and a cooldown entry exists.
C14_Witness ==
    \E h \in Handlers :
        /\ handlers[h].pc = "done"
        /\ handlers[h].decision \in Rejections \ {"Ignored", "NotTrigger"}
        /\ users_awaiting_response # {}
        /\ DOMAIN user_cooldowns # {}

\* C15: the clock never goes back, and the cooldown timestamp of each user
\* never goes back either: an entry is never deleted, a write sets it to the
\* current time, which is not earlier than the value it replaces, and no
\* entry lies in the future.
C15_CooldownMonotonic ==
    /\ [][/\ clock' >= clock
          /\ \A u \in Users :
                /\ u \in DOMAIN user_cooldowns
                     => /\ u \in DOMAIN user_cooldowns'
                        /\ user_cooldowns'[u] >= user_cooldowns[u]
                /\ ( /\ u \in DOMAIN user_cooldowns'
                     /\ \/ u \notin DOMAIN user_cooldowns
                        \/ user_cooldowns'[u] # user_cooldowns[u] )
                     => user_cooldowns'[u] = clock
          /\ \A h \in Handlers :
                ( /\ handlers[h].pc = "reply"
                  /\ handlers'[h].pc = "done"
                  /\ handlers'[h].fault = None )
                => /\ handlers[h].author \in DOMAIN user_cooldowns'
                   /\ user_cooldowns'[handlers[h].author] = clock]_vars
    /\ [](\A u \in DOMAIN user_cooldowns : user_cooldowns[u] <= clock)

\* Both users have an entry, and the entry of one of them has been
\* overwritten with a later time.
C15_Witness ==
    /\ DOMAIN user_cooldowns = Users
    /\ \E u \in DOMAIN last_success : user_cooldowns[u] > last_success[u]

\* C16: a triggering event with a non-empty prompt from a user who is not in
\* flight and has a cooldown entry is admitted exactly when the time since
\* that entry is at least COOLDOWN_SECONDS, the case of equality included,
\* and gets the on-cooldown notice otherwise.
C16_AdmittedAtWindowEnd ==
    [][\A h \in Handlers : Started(h) =>
        \A a \in Users :
          (a \notin users_awaiting_response /\ a \in DOMAIN user_cooldowns) =>
          \A ev \in PromptEvents :
            Handles(h, a, ev)
            => IF clock - user_cooldowns[a] >= COOLDOWN_SECONDS * TicksPerSecond
               THEN /\ handlers'[h].decision = "Admitted"
                    /\ handlers'[h].pc = "typing"
                    /\ a \in users_awaiting_response'
               ELSE /\ handlers'[h].decision = "OnCooldown"
                    /\ handlers'[h].pc = "notice"]_vars

\* A request admitted exactly COOLDOWN_SECONDS after the entry of its user.
C16_Witness ==
    \E h \in Handlers :
        /\ handlers[h].pc = "typing"
        /\ handlers[h].decision = "Admitted"
        /\ handlers[h].author \in DOMAIN user_cooldowns
        /\ clock - user_cooldowns[handlers[h].author] =
              COOLDOWN_SECONDS * TicksPerSecond

\* C17: the cooldown registry changes only in the step in which the reply
\* send of a request returns; when the typing indicator or the reply send
\* raises, the registry stays as it was and the user of the request is taken
\* out of the in-flight set.
C17_CooldownOnlyAfterDelivery ==
    [][/\ \A h \in Handlers :
            ( /\ InPipeline(h)
              /\ handlers'[h].pc = "done"
              /\ handlers'[h].fault = "HTTPException" )
            => /\ handlers[h].pc \in {"typing", "reply"}
               /\ user_cooldowns' = user_cooldowns
               /\ handlers[h].author \in users_awaiting_response
               /\ handlers[h].author \notin users_awaiting_response'
       /\ user_cooldowns' # user_cooldowns
            => \E h \in Handlers :
                 /\ handlers[h].pc = "reply"
                 /\ handlers'[h].pc = "done"
                 /\ handlers'[h].fault = None
                 /\ user_cooldowns' =
                       [u \in DOMAIN user_cooldowns \cup {handlers[h].author}
                          |-> IF u = handlers[h].author THEN clock
                              ELSE user_cooldowns[u]]]_vars

\* An admitted request has ended with an exception of the typing indicator
\* or of the reply send, and the registry has no entry.
C17_Witness ==
    \E h \in Handlers :
        /\ handlers[h].pc = "done"
        /\ handlers[h].decision = "Admitted"
        /\ handlers[h].fault = "HTTPException"
        /\ DOMAIN user_cooldowns = {}

\* This step is a step of the handler in slot h.
Steps(h) == handlers'[h] # handlers[h]

\* The inference call of the request in slot h is invoked in this step: the
\* typing indicator is entered and line 131 awaits get_ai_response.
Invokes(h) == Steps(h) /\ handlers'[h].pc = "inference"

\* The reply of the request in slot h is delivered in this step.
Delivers(h) ==
    /\ Steps(h)
    /\ handlers[h].pc = "reply"
    /\ handlers'[h].fault = None

KeepsUser(u) ==
    /\ u \in users_awaiting_response' <=> u \in users_awaiting_response
    /\ u \in DOMAIN user_cooldowns' <=> u \in DOMAIN user_cooldowns
    /\ u \in DOMAIN user_cooldowns
         => user_cooldowns'[u] = user_cooldowns[u]

\* C19: an event of a user is rejected as already-in-flight only when that
\* user is in flight and as on-cooldown only when that user is not in
\* flight and inside the window of its own entry, whatever the state of the
\* other users; and a step of a handler of one user leaves the in-flight
\* membership and the cooldown entry of every other user unchanged.
C19_UsersAreIndependent ==
    [][\A h \in Handlers : Steps(h) =>
          /\ Started(h) =>
                /\ handlers'[h].decision = "AlreadyInFlight"
                     => handlers'[h].author \in users_awaiting_response
                /\ handlers'[h].decision = "OnCooldown"
                     => /\ handlers'[h].author \notin users_awaiting_response
                        /\ handlers'[h].author \in DOMAIN user_cooldowns
                        /\ clock - user_cooldowns[handlers'[h].author]
                              < CooldownWindow
                /\ \A b \in Users :
                      b # handlers'[h].author => KeepsUser(b)
          /\ ~Started(h) =>
                \A b \in Users : b # handlers[h].author => KeepsUser(b)]_vars

\* A user without an entry has been admitted while the other user is on
\* cooldown.
C19_Witness ==
    \E h \in Handlers, a \in Users :
        /\ handlers[h].pc = "typing"
        /\ handlers[h].decision = "Admitted"
        /\ handlers[h].author # a
        /\ handlers[h].author \notin DOMAIN user_cooldowns
        /\ OnCooldown(a)

====
